---- MODULE Spec2Model ----
(***************************************************************************)
(* Smart trolley (src/main.py): one scanner thread (qr_scanner) that       *)
(* debounces decoded barcodes and calls process_barcode, and Flask request *)
(* handlers (get_cart, clear_cart, remove_item, increase_quantity,         *)
(* decrease_quantity, reload_products) that run in threads of their own.   *)
(* The module-level globals product_database, scanned_products,            *)
(* total_amount and last_scan are shared without any lock, so every        *)
(* function is modelled as the sequence of its reads and writes of them.   *)
(*                                                                         *)
(* Money is counted in thousandths of the currency unit (2.51 is 2510), so *)
(* that round(x, 2) has digits to drop.  Time is counted in tenths of a    *)
(* second.  Strings that the code trims and upper-cases are sequences of   *)
(* one-character strings.                                                  *)
(***************************************************************************)
EXTENDS Integers, Sequences, FiniteSets, TLC

\* ---------------------------------------------------------------- bounds
NumHandlers == 2
MaxQty == 2
MaxScans == 3
MaxTime == 22
MaxDay == 1
MaxDicts == 5
MaxRequests == 1
MaxCalls == 2

\* ------------------------------------------------------ program constants
RESCAN_DELAY == 20
CURRENCY_MULTIPLIER == 1
ESC == 27

\* ------------------------------------------------------------ the threads
Scanner == 0
Handlers == 1..NumHandlers
Threads == {Scanner} \cup Handlers

\* ------------------------------------------------------------ pure helpers
Range(s) == {s[i] : i \in 1..Len(s)}

\* str.upper() on one character
UpperChar(c) ==
  CASE c = "a" -> "A"
    [] c = "b" -> "B"
    [] c = "c" -> "C"
    [] c = "x" -> "X"
    [] OTHER -> c

upper(s) == [i \in 1..Len(s) |-> UpperChar(s[i])]

RECURSIVE lstrip(_)
lstrip(s) == IF s # <<>> /\ Head(s) = " " THEN lstrip(Tail(s)) ELSE s

RECURSIVE rstrip(_)
rstrip(s) ==
  IF s # <<>> /\ s[Len(s)] = " " THEN rstrip(SubSeq(s, 1, Len(s) - 1)) ELSE s

\* str.strip()
strip(s) == rstrip(lstrip(s))

\* round(x, 2) on thousandths: to the nearest hundredth, a tie to the even one
Round2(x) ==
  LET lo == (x \div 10) * 10
      r == x % 10
  IN  IF r < 5 THEN lo
      ELSE IF r > 5 THEN lo + 10
      ELSE IF (lo \div 10) % 2 = 0 THEN lo ELSE lo + 10

\* ------------------------------------------------------- the scanned input
\* what pyzbar decodes from one frame: obj.data of each symbol, in order
Frames ==
  { <<>>,
    << <<"a">> >>,
    << <<" ", "b">> >>,
    << <<"x">> >>,
    << <<" ">>, <<"A">> >> }

\* the <barcode> path segment of a request
UrlCodes == { <<"a">>, <<"B", " ">> }

\* the time between two readings of the clock
TimeSteps == {10, 11}

\* --------------------------------------------------------- products.json
\* A parsed products.json is a sequence of (barcode, info) pairs in file
\* order; info is an object {name, price} (isdict) or a bare value whose
\* text is `text`.  price is the float the value parses to when float()
\* succeeds on it (parses).
File1 ==
  << [barcode |-> <<"a">>, isdict |-> TRUE, name |-> "Milk", text |-> "",
      parses |-> TRUE, price |-> 2506],
     [barcode |-> <<"B", " ">>, isdict |-> FALSE, name |-> "", text |-> "1.004",
      parses |-> TRUE, price |-> 1004] >>

File2 ==
  << [barcode |-> <<>>, isdict |-> TRUE, name |-> "None", text |-> "",
      parses |-> TRUE, price |-> 500],
     [barcode |-> <<" ", "a">>, isdict |-> TRUE, name |-> "Milk", text |-> "",
      parses |-> TRUE, price |-> 3000],
     [barcode |-> <<"c">>, isdict |-> TRUE, name |-> "Tea", text |-> "",
      parses |-> FALSE, price |-> 0] >>

\* what os.path.exists()/json.load() can give: a parsed file, no file, or a
\* parse error
FileStates ==
  {[state |-> "ok", raw |-> f] : f \in {File1, File2}}
    \cup {[state |-> "missing", raw |-> <<>>], [state |-> "malformed", raw |-> <<>>]}

\* lines 65-77: the name and the price of one entry
EntryName(e) == IF e.isdict THEN e.name ELSE e.text

EntryPrice(e) == IF e.parses THEN e.price * CURRENCY_MULTIPLIER ELSE 0

\* line 79: product_database[bc] = {'name': name, 'price': round(price, 2)}
StoreEntry(pd, e) ==
  LET bc == upper(strip(e.barcode))
      v == [name |-> EntryName(e), price |-> Round2(EntryPrice(e))]
  IN  [k \in DOMAIN pd \cup {bc} |-> IF k = bc THEN v ELSE pd[k]]

\* the empty dict
EmptyMap == [k \in {} |-> 0]

\* load_products_from_json run alone, from the first entry to the last
RECURSIVE LoadEntries(_, _)
LoadEntries(pd, raw) ==
  IF raw = <<>> THEN pd
  ELSE IF Head(raw).barcode = <<>> THEN LoadEntries(pd, Tail(raw))
  ELSE LoadEntries(StoreEntry(pd, Head(raw)), Tail(raw))

load_products_from_json(f) ==
  IF f.state = "ok" THEN LoadEntries(EmptyMap, f.raw) ELSE EmptyMap

\* ----------------------------------------------------------------- state
VARIABLES
  product_database,   \* barcode -> [name, price]
  scanned_products,   \* the list object the global is bound to
  total_amount,
  last_scan,          \* [barcode, time]
  lists,              \* list object -> its elements (dict objects)
  dicts,              \* dict object -> [name, price, barcode, quantity, total]
  th,                 \* thread -> its position and locals
  db,                 \* the rows of table products, in id order
  now,                \* time.time()
  today,              \* DATE('now')
  requests,           \* the number of requests received
  accepted,           \* barcode -> the time of its last accepted scan
  call                \* the call that runs or ran last, and the cart it found

vars == <<product_database, scanned_products, total_amount, last_scan, lists,
          dicts, th, db, now, today, requests, accepted, call>>

NoRef == 0
ListIds == 1..(NumHandlers + 2)
DictIds == 1..MaxDicts

NoDict == [name |-> "", price |-> 0, barcode |-> <<>>, quantity |-> 0, total |-> 0]
NoProduct == [name |-> "", price |-> -1]
NoResp == [products |-> <<>>, total_amount |-> -1, item_count |-> -1]

\* no call has been made yet
NoCall == [op |-> "none", bc |-> <<>>, items |-> <<>>, total |-> 0,
           prev |-> [op |-> "none", bc |-> <<>>]]

\* a thread's locals: bc (the barcode), lst/idx (a list iterator), item (the
\* loop variable), acc (a value being computed), kept (a list being built),
\* objs (what is left to iterate of decoded_objects or of raw.items()),
\* product, existing (save_to_database's fetchone), resp (the response)
Locals(p) ==
  [pc |-> p, bc |-> <<>>, lst |-> NoRef, idx |-> 0, item |-> NoRef, acc |-> 0,
   kept |-> <<>>, objs |-> <<>>, product |-> NoProduct, existing |-> FALSE,
   resp |-> NoResp]

\* ------------------------------------------------------------- the heap
\* CPython frees an object when its last reference goes
LiveLists(sp, thr) == ({sp} \cup {thr[t].lst : t \in Threads}) \ {NoRef}

LiveDicts(ls, sp, thr) ==
  (UNION {Range(ls[l]) : l \in LiveLists(sp, thr)}
     \cup {thr[t].item : t \in Threads}
     \cup UNION {Range(thr[t].kept) : t \in Threads}) \ {NoRef}

NewList == CHOOSE l \in ListIds :
             /\ l \notin LiveLists(scanned_products, th)
             /\ \A k \in 1..(l - 1) : k \in LiveLists(scanned_products, th)

NewDict == CHOOSE d \in DictIds :
             /\ d \notin LiveDicts(lists, scanned_products, th)
             /\ \A k \in 1..(d - 1) : k \in LiveDicts(lists, scanned_products, th)

\* the next state of the cart objects and of the threads
Heap(ls, ds, sp, thr) ==
  /\ scanned_products' = sp
  /\ th' = thr
  /\ lists' = [l \in ListIds |-> IF l \in LiveLists(sp, thr) THEN ls[l] ELSE <<>>]
  /\ dicts' = [d \in DictIds |->
                 IF d \in LiveDicts(ls, sp, thr) THEN ds[d] ELSE NoDict]

\* one thread's step that touches no list and no dict
Local(t, r) == Heap(lists, dicts, scanned_products, [th EXCEPT ![t] = r])

\* sum(item['total'] for item in l)
RECURSIVE SumTotals(_, _)
SumTotals(l, ds) ==
  IF l = <<>> THEN 0 ELSE ds[Head(l)].total + SumTotals(Tail(l), ds)

\* lines 106-108 and 87, 103: the globals after import
Init ==
  /\ product_database = load_products_from_json([state |-> "ok", raw |-> File1])
  /\ scanned_products = 1
  /\ total_amount = 0
  /\ last_scan = [barcode |-> <<>>, time |-> 0]
  /\ lists = [l \in ListIds |-> <<>>]
  /\ dicts = [d \in DictIds |-> NoDict]
  /\ th = [t \in Threads |-> IF t = Scanner THEN Locals("fetch") ELSE Locals("idle")]
  /\ db = <<>>
  /\ now = 0
  /\ today = 0
  /\ requests = 0
  /\ accepted = EmptyMap
  /\ call = NoCall

\* ------------------------------------------------- steps shared by callers
\* The cart functions repeat the same statements; each operator below is one
\* of them, run by thread t at label `here`.

At(t, here) == th[t].pc = here

\* GET_ITER of `for item in scanned_products`: the iterator keeps the list
\* object the global is bound to now
IterStep(t, here, next) ==
  /\ At(t, here)
  /\ Local(t, [th[t] EXCEPT !.pc = next, !.lst = scanned_products, !.idx = 0])
  /\ UNCHANGED <<product_database, total_amount, last_scan, db, now, today>>

\* one turn of `for item in scanned_products: if item['barcode'] == bc:`
\* (a list iterator ends when its index has reached the list's length)
FindStep(t, here, hit, miss) ==
  /\ At(t, here)
  /\ LET r == th[t]
         l == lists[r.lst]
     IN  IF r.idx < Len(l)
         THEN IF dicts[l[r.idx + 1]].barcode = r.bc
              THEN Local(t, [r EXCEPT !.pc = hit, !.item = l[r.idx + 1],
                                      !.lst = NoRef, !.idx = 0])
              ELSE Local(t, [r EXCEPT !.idx = r.idx + 1])
         ELSE Local(t, [r EXCEPT !.pc = miss, !.lst = NoRef, !.idx = 0])
  /\ UNCHANGED <<product_database, total_amount, last_scan, db, now, today>>

\* item['quantity'] += d, the read
QuantityRead(t, here, next) ==
  /\ At(t, here)
  /\ Local(t, [th[t] EXCEPT !.pc = next, !.acc = dicts[th[t].item].quantity])
  /\ UNCHANGED <<product_database, total_amount, last_scan, db, now, today>>

\* item['quantity'] += d, the write
QuantityWrite(t, here, next, d) ==
  /\ At(t, here)
  /\ Heap(lists, [dicts EXCEPT ![th[t].item].quantity = th[t].acc + d],
          scanned_products, [th EXCEPT ![t].pc = next, ![t].acc = 0])
  /\ UNCHANGED <<product_database, total_amount, last_scan, db, now, today>>

\* line 184 with the price product_database has now for the item's barcode
LineTotalFromCatalog(t, here, next) ==
  /\ At(t, here)
  /\ LET it == dicts[th[t].item]
         price == IF it.barcode \in DOMAIN product_database
                  THEN product_database[it.barcode].price ELSE it.price
     IN  Local(t, [th[t] EXCEPT !.pc = next, !.acc = Round2(it.quantity * price)])
  /\ UNCHANGED <<product_database, total_amount, last_scan, db, now, today>>

\* round(item['quantity'] * item['price'], 2), the argument and the call
LineTotalRead(t, here, next) ==
  /\ At(t, here)
  /\ LET it == dicts[th[t].item]
     IN  Local(t, [th[t] EXCEPT !.pc = next, !.acc = Round2(it.quantity * it.price)])
  /\ UNCHANGED <<product_database, total_amount, last_scan, db, now, today>>

\* item['total'] = <the value>; the loop is left, item is used no more
LineTotalWrite(t, here, next) ==
  /\ At(t, here)
  /\ Heap(lists, [dicts EXCEPT ![th[t].item].total = th[t].acc],
          scanned_products,
          [th EXCEPT ![t].pc = next, ![t].acc = 0, ![t].item = NoRef])
  /\ UNCHANGED <<product_database, total_amount, last_scan, db, now, today>>

\* sum(item['total'] for item in scanned_products): the generator is created
\* over the list the global is bound to now
SumIter(t, here, next) ==
  /\ At(t, here)
  /\ Local(t, [th[t] EXCEPT !.pc = next, !.lst = scanned_products, !.idx = 0,
                            !.acc = 0])
  /\ UNCHANGED <<product_database, total_amount, last_scan, db, now, today>>

\* one resumption of the generator: the next item's total is added
SumStep(t, here, next) ==
  /\ At(t, here)
  /\ LET r == th[t]
         l == lists[r.lst]
     IN  IF r.idx < Len(l)
         THEN Local(t, [r EXCEPT !.idx = r.idx + 1,
                                 !.acc = r.acc + dicts[l[r.idx + 1]].total])
         ELSE Local(t, [r EXCEPT !.pc = next, !.lst = NoRef, !.idx = 0])
  /\ UNCHANGED <<product_database, total_amount, last_scan, db, now, today>>

\* total_amount = round(<the sum>, 2)
TotalWrite(t, here, r) ==
  /\ At(t, here)
  /\ total_amount' = Round2(th[t].acc)
  /\ Local(t, r)
  /\ UNCHANGED <<product_database, last_scan, db, now, today>>

\* ------------------------------------------------------ save_to_database
\* the row test without the date: any row of this barcode
RowOfBarcode(row, bc, day) == row.barcode = bc

\* lines 208-210: a row of this barcode whose timestamp is of today
RowOfToday(row, bc, day) == row.barcode = bc /\ row.day = day

\* lines 211-217: UPDATE every such row, or INSERT one with quantity 1
WriteRow(rows, existing, bc, name, price, day) ==
  IF existing
  THEN [i \in 1..Len(rows) |->
          IF RowOfToday(rows[i], bc, day)
          THEN [rows[i] EXCEPT !.quantity = rows[i].quantity + 1]
          ELSE rows[i]]
  ELSE Append(rows, [name |-> name, price |-> price, barcode |-> bc,
                     quantity |-> 1, day |-> day])

RECURSIVE SumQuantity(_)
SumQuantity(rows) ==
  IF rows = <<>> THEN 0 ELSE Head(rows).quantity + SumQuantity(Tail(rows))

\* ------------------------------------------------------------- qr_scanner
\* the frames stop showing symbols once the bounds of the model are reached
MayScan ==
  /\ SumQuantity(db) < MaxScans
  /\ \A d \in DictIds : dicts[d].quantity < MaxQty

\* lines 164-166: any exception ends this turn of the while loop
Raise(t) == Locals("except")

\* lines 133-137: the frame is fetched and decoded, or the fetch raises
fetch_frame(t) ==
  /\ At(t, "fetch")
  /\ \/ \E f \in Frames :
          /\ f = <<>> \/ MayScan
          /\ Local(t, [th[t] EXCEPT !.pc = "objs", !.objs = f])
     \/ Local(t, Raise(t))
  /\ UNCHANGED <<product_database, total_amount, last_scan, db, now, today>>

\* the debounce test with >= for >: a scan exactly RESCAN_DELAY after the last
\* accepted one passes
AcceptsFromDelay(ls, barcode_lookup, current_time) ==
  ls.barcode # barcode_lookup \/ (current_time - ls.time) >= RESCAN_DELAY

\* line 147: the debounce test
Accepts(ls, barcode_lookup, current_time) ==
  ls.barcode # barcode_lookup \/ (current_time - ls.time) > RESCAN_DELAY

\* lines 139-152: one turn of `for obj in decoded_objects`, up to the call of
\* process_barcode
scan_object(t) ==
  /\ At(t, "objs")
  /\ th[t].objs # <<>>
  /\ LET r == th[t]
         barcode_data == strip(Head(r.objs))
         barcode_lookup == upper(barcode_data)
         current_time == now
     IN  IF barcode_data = <<>>
         THEN /\ Local(t, [r EXCEPT !.objs = Tail(r.objs)])
              /\ UNCHANGED last_scan
         ELSE IF Accepts(last_scan, barcode_lookup, current_time)
         THEN /\ last_scan' = [barcode |-> barcode_lookup, time |-> current_time]
              /\ Local(t, [r EXCEPT !.pc = "pb_in", !.bc = barcode_lookup,
                                    !.objs = Tail(r.objs)])
         ELSE /\ Local(t, [r EXCEPT !.objs = Tail(r.objs)])
              /\ UNCHANGED last_scan
  /\ UNCHANGED <<product_database, total_amount, db, now, today>>

\* lines 159-162: the frame is shown; ESC leaves the loop
show_frame(t) ==
  /\ At(t, "objs")
  /\ th[t].objs = <<>>
  /\ \E key \in {-1, ESC} :
       Local(t, IF key = ESC THEN Locals("stopped") ELSE Locals("fetch"))
  /\ UNCHANGED <<product_database, total_amount, last_scan, db, now, today>>

\* an except clause that leaves the loop
stop_after_error(t) ==
  /\ At(t, "except")
  /\ Local(t, Locals("stopped"))
  /\ UNCHANGED <<product_database, total_amount, last_scan, db, now, today>>

\* line 166: time.sleep(1), then the next turn of the while loop
retry_after_error(t) ==
  /\ At(t, "except")
  /\ Local(t, Locals("fetch"))
  /\ UNCHANGED <<product_database, total_amount, last_scan, db, now, today>>

\* -------------------------------------------------------- process_barcode
\* back in qr_scanner's for loop
Return(t) == [Locals("objs") EXCEPT !.objs = th[t].objs]

\* line 176 without its else: a barcode that is not in product_database is an
\* error
pb_in_strict(t) ==
  /\ At(t, "pb_in")
  /\ IF th[t].bc \in DOMAIN product_database
     THEN Local(t, [th[t] EXCEPT !.pc = "pb_get"])
     ELSE Local(t, Raise(t))
  /\ UNCHANGED <<product_database, total_amount, last_scan, db, now, today>>

\* line 176: if barcode_data_upper in product_database (else line 202)
pb_in(t) ==
  /\ At(t, "pb_in")
  /\ IF th[t].bc \in DOMAIN product_database
     THEN Local(t, [th[t] EXCEPT !.pc = "pb_get"])
     ELSE Local(t, Return(t))
  /\ UNCHANGED <<product_database, total_amount, last_scan, db, now, today>>

\* line 177: product = product_database[barcode_data_upper]; a KeyError when
\* the key has gone since line 176
pb_get(t) ==
  /\ At(t, "pb_get")
  /\ IF th[t].bc \in DOMAIN product_database
     THEN Local(t, [th[t] EXCEPT !.pc = "pb_iter",
                                 !.product = product_database[th[t].bc]])
     ELSE Local(t, Raise(t))
  /\ UNCHANGED <<product_database, total_amount, last_scan, db, now, today>>

\* line 181
pb_iter(t) == IterStep(t, "pb_iter", "pb_find")

\* lines 181-182, 186
pb_find(t) == FindStep(t, "pb_find", "pb_qread", "pb_append")

\* line 183
pb_qread(t) == QuantityRead(t, "pb_qread", "pb_qwrite")

pb_qwrite(t) == QuantityWrite(t, "pb_qwrite", "pb_tread", 1)

\* line 184
pb_tread(t) == LineTotalRead(t, "pb_tread", "pb_twrite")

pb_twrite(t) == LineTotalWrite(t, "pb_twrite", "pb_sumiter")

\* lines 189-195
NewProduct(product, bc) ==
  [name |-> product.name, price |-> product.price, barcode |-> bc,
   quantity |-> 1, total |-> Round2(product.price)]

\* process_barcode with lines 198 and 199 in the other order: the row is
\* written before total_amount
pb_append_then_log(t) ==
  /\ At(t, "pb_append")
  /\ Heap([lists EXCEPT ![scanned_products] = Append(@, NewDict)],
          [dicts EXCEPT ![NewDict] = NewProduct(th[t].product, th[t].bc)],
          scanned_products, [th EXCEPT ![t].pc = "pb_select"])
  /\ UNCHANGED <<product_database, total_amount, last_scan, db, now, today>>

\* line 196 with insert(0, new_product): the new item goes to the front
pb_prepend(t) ==
  /\ At(t, "pb_append")
  /\ Heap([lists EXCEPT ![scanned_products] = <<NewDict>> \o @],
          [dicts EXCEPT ![NewDict] = NewProduct(th[t].product, th[t].bc)],
          scanned_products, [th EXCEPT ![t].pc = "pb_sumiter"])
  /\ UNCHANGED <<product_database, total_amount, last_scan, db, now, today>>

\* lines 188-196: scanned_products.append(new_product), on the list the
\* global is bound to now
pb_append(t) ==
  /\ At(t, "pb_append")
  /\ Heap([lists EXCEPT ![scanned_products] = Append(@, NewDict)],
          [dicts EXCEPT ![NewDict] = NewProduct(th[t].product, th[t].bc)],
          scanned_products, [th EXCEPT ![t].pc = "pb_sumiter"])
  /\ UNCHANGED <<product_database, total_amount, last_scan, db, now, today>>

\* line 198
pb_sumiter(t) == SumIter(t, "pb_sumiter", "pb_sum")

pb_sum(t) == SumStep(t, "pb_sum", "pb_total")

pb_total(t) == TotalWrite(t, "pb_total", [th[t] EXCEPT !.pc = "pb_select", !.acc = 0])

\* lines 206-210: connect and SELECT; sqlite3 raises when the file is locked
\* or cannot be opened
pb_select(t) ==
  /\ At(t, "pb_select")
  /\ \/ Local(t, [th[t] EXCEPT !.pc = "pb_write",
                    !.existing = \E i \in 1..Len(db) : RowOfToday(db[i], th[t].bc, today)])
     \/ Local(t, Raise(t))
  /\ UNCHANGED <<product_database, total_amount, last_scan, db, now, today>>

\* lines 211-218: UPDATE or INSERT, commit, close; then line 200 and the
\* return.  When the statement or the commit raises (the file is locked),
\* nothing is written
pb_write(t) ==
  /\ At(t, "pb_write")
  /\ \/ /\ db' = WriteRow(db, th[t].existing, th[t].bc, th[t].product.name,
                          th[t].product.price, today)
        /\ Local(t, Return(t))
     \/ /\ UNCHANGED db
        /\ Local(t, Raise(t))
  /\ UNCHANGED <<product_database, total_amount, last_scan, now, today>>

process_barcode(t) ==
  \/ pb_in(t) \/ pb_get(t) \/ pb_iter(t) \/ pb_find(t)
  \/ pb_qread(t) \/ pb_qwrite(t) \/ pb_tread(t) \/ pb_twrite(t)
  \/ pb_append(t)
  \/ pb_sumiter(t) \/ pb_sum(t) \/ pb_total(t)
  \/ pb_select(t) \/ pb_write(t)

qr_scanner(t) ==
  \/ fetch_frame(t) \/ scan_object(t) \/ show_frame(t) \/ retry_after_error(t)
  \/ process_barcode(t)

\* the clock moves on
Tick ==
  /\ \E d \in TimeSteps : now + d <= MaxTime /\ now' = now + d
  /\ UNCHANGED <<product_database, scanned_products, total_amount, last_scan,
                 lists, dicts, th, db, today>>

\* midnight passes
Midnight ==
  /\ today < MaxDay
  /\ today' = today + 1
  /\ UNCHANGED <<product_database, scanned_products, total_amount, last_scan,
                 lists, dicts, th, db, now>>

\* ------------------------------------------------------ the request handlers
\* a handler thread takes the next request when it has answered the last one
Done(t) == Locals("idle")

\* lines 227-230: the dict display reads scanned_products (the reference),
\* then total_amount, then len(scanned_products); this is the first read
get_cart(t) ==
  /\ At(t, "idle")
  /\ Local(t, [th[t] EXCEPT !.pc = "gc_total", !.lst = scanned_products])
  /\ UNCHANGED <<product_database, total_amount, last_scan, db, now, today>>

\* line 229
gc_total(t) ==
  /\ At(t, "gc_total")
  /\ Local(t, [th[t] EXCEPT !.pc = "gc_len", !.acc = total_amount])
  /\ UNCHANGED <<product_database, total_amount, last_scan, db, now, today>>

\* line 230
gc_len(t) ==
  /\ At(t, "gc_len")
  /\ Local(t, [th[t] EXCEPT !.pc = "gc_json", !.idx = Len(lists[scanned_products])])
  /\ UNCHANGED <<product_database, total_amount, last_scan, db, now, today>>

\* what json.dumps writes of a list of dicts
Serialize(l, ds) == [i \in 1..Len(l) |-> ds[l[i]]]

\* line 227: jsonify writes the list as it is now, beside the two values read
gc_json(t) ==
  /\ At(t, "gc_json")
  /\ Local(t, [Locals("gc_done") EXCEPT
                 !.resp = [products |-> Serialize(lists[th[t].lst], dicts),
                           total_amount |-> th[t].acc,
                           item_count |-> th[t].idx]])
  /\ UNCHANGED <<product_database, total_amount, last_scan, db, now, today>>

\* the response is sent
gc_done(t) ==
  /\ At(t, "gc_done")
  /\ Local(t, Done(t))
  /\ UNCHANGED <<product_database, total_amount, last_scan, db, now, today>>

\* line 237: scanned_products = [], a new list object
clear_cart(t) ==
  /\ At(t, "idle")
  /\ Heap([lists EXCEPT ![NewList] = <<>>], dicts, NewList,
          [th EXCEPT ![t].pc = "cl_total"])
  /\ UNCHANGED <<product_database, total_amount, last_scan, db, now, today>>

\* clear_cart without line 238: the total is left as it was
cl_total_kept(t) ==
  /\ At(t, "cl_total")
  /\ Local(t, Done(t))
  /\ UNCHANGED <<product_database, total_amount, last_scan, db, now, today>>

\* clear_cart that empties the log with the cart
cl_total_wipes_log(t) ==
  /\ At(t, "cl_total")
  /\ total_amount' = 0
  /\ db' = <<>>
  /\ Local(t, Done(t))
  /\ UNCHANGED <<product_database, last_scan, now, today>>

\* line 238
cl_total(t) ==
  /\ At(t, "cl_total")
  /\ total_amount' = 0
  /\ Local(t, Done(t))
  /\ UNCHANGED <<product_database, last_scan, db, now, today>>

\* lines 244-245: bc, and the comprehension's iterator
remove_item(t) ==
  /\ At(t, "idle")
  /\ \E barcode \in UrlCodes :
       Local(t, [th[t] EXCEPT !.pc = "rm_filter", !.bc = upper(strip(barcode)),
                              !.lst = scanned_products, !.idx = 0])
  /\ UNCHANGED <<product_database, total_amount, last_scan, db, now, today>>

\* the comprehension of line 245 that drops the first item with the matches
rm_filter_head(t) ==
  /\ At(t, "rm_filter")
  /\ LET r == th[t]
         l == lists[r.lst]
     IN  IF r.idx < Len(l)
         THEN Local(t, [r EXCEPT !.idx = r.idx + 1,
                          !.kept = IF dicts[l[r.idx + 1]].barcode # r.bc /\ r.idx > 0
                                   THEN Append(r.kept, l[r.idx + 1])
                                   ELSE r.kept])
         ELSE Local(t, [r EXCEPT !.pc = "rm_assign", !.lst = NoRef, !.idx = 0])
  /\ UNCHANGED <<product_database, total_amount, last_scan, db, now, today>>

\* line 245: one turn of the comprehension
rm_filter(t) ==
  /\ At(t, "rm_filter")
  /\ LET r == th[t]
         l == lists[r.lst]
     IN  IF r.idx < Len(l)
         THEN Local(t, [r EXCEPT !.idx = r.idx + 1,
                          !.kept = IF dicts[l[r.idx + 1]].barcode # r.bc
                                   THEN Append(r.kept, l[r.idx + 1])
                                   ELSE r.kept])
         ELSE Local(t, [r EXCEPT !.pc = "rm_assign", !.lst = NoRef, !.idx = 0])
  /\ UNCHANGED <<product_database, total_amount, last_scan, db, now, today>>

\* line 245: scanned_products[:] = <the new list>, in place, on the list the
\* global is bound to now
rm_assign(t) ==
  /\ At(t, "rm_assign")
  /\ Heap([lists EXCEPT ![scanned_products] = th[t].kept], dicts, scanned_products,
          [th EXCEPT ![t].pc = "rm_sumiter", ![t].kept = <<>>])
  /\ UNCHANGED <<product_database, total_amount, last_scan, db, now, today>>

\* line 246
rm_sumiter(t) == SumIter(t, "rm_sumiter", "rm_sum")

rm_sum(t) == SumStep(t, "rm_sum", "rm_total")

rm_total(t) == TotalWrite(t, "rm_total", Done(t))

\* requests to increase stop once the bounds of the model are reached
MayIncrease == \A d \in DictIds : dicts[d].quantity < MaxQty

\* lines 252-253
increase_quantity(t) ==
  /\ At(t, "idle")
  /\ MayIncrease
  /\ \E barcode \in UrlCodes :
       Local(t, [th[t] EXCEPT !.pc = "in_find", !.bc = upper(strip(barcode)),
                              !.lst = scanned_products, !.idx = 0])
  /\ UNCHANGED <<product_database, total_amount, last_scan, db, now, today>>

\* lines 253-254, 257
in_find(t) == FindStep(t, "in_find", "in_qread", "in_sumiter")

\* line 255
in_qread(t) == QuantityRead(t, "in_qread", "in_qwrite")

in_qwrite(t) == QuantityWrite(t, "in_qwrite", "in_tread", 1)

\* line 256
in_tread(t) == LineTotalRead(t, "in_tread", "in_twrite")

in_twrite(t) == LineTotalWrite(t, "in_twrite", "in_sumiter")

\* line 258
in_sumiter(t) == SumIter(t, "in_sumiter", "in_sum")

in_sum(t) == SumStep(t, "in_sum", "in_total")

in_total(t) == TotalWrite(t, "in_total", Done(t))

\* lines 264-265
decrease_quantity(t) ==
  /\ At(t, "idle")
  /\ \E barcode \in UrlCodes :
       Local(t, [th[t] EXCEPT !.pc = "de_find", !.bc = upper(strip(barcode)),
                              !.lst = scanned_products, !.idx = 0])
  /\ UNCHANGED <<product_database, total_amount, last_scan, db, now, today>>

\* lines 265-266, 272
de_find(t) == FindStep(t, "de_find", "de_check", "de_sumiter")

\* line 267 with > 0: the last one is taken off and the item stays
de_check_zero(t) ==
  /\ At(t, "de_check")
  /\ Local(t, [th[t] EXCEPT !.pc = IF dicts[th[t].item].quantity > 0
                                   THEN "de_qread" ELSE "de_remove"])
  /\ UNCHANGED <<product_database, total_amount, last_scan, db, now, today>>

\* line 267: if item['quantity'] > 1
de_check(t) ==
  /\ At(t, "de_check")
  /\ Local(t, [th[t] EXCEPT !.pc = IF dicts[th[t].item].quantity > 1
                                   THEN "de_qread" ELSE "de_remove"])
  /\ UNCHANGED <<product_database, total_amount, last_scan, db, now, today>>

\* line 268
de_qread(t) == QuantityRead(t, "de_qread", "de_qwrite")

de_qwrite(t) == QuantityWrite(t, "de_qwrite", "de_tread", -1)

\* line 269
de_tread(t) == LineTotalRead(t, "de_tread", "de_twrite")

de_twrite(t) == LineTotalWrite(t, "de_twrite", "de_sumiter")

\* list.remove(x): the index of the first element equal to x, 0 if there is none
FirstEqual(l, ds, x) ==
  IF \E i \in 1..Len(l) : ds[l[i]] = ds[x]
  THEN CHOOSE i \in 1..Len(l) :
         /\ ds[l[i]] = ds[x]
         /\ \A j \in 1..(i - 1) : ds[l[j]] # ds[x]
  ELSE 0

RemoveAt(l, i) == SubSeq(l, 1, i - 1) \o SubSeq(l, i + 1, Len(l))

\* line 271: scanned_products.remove(item), on the list the global is bound
\* to now; a ValueError (the request ends with status 500) when no element of
\* that list equals item
de_remove(t) ==
  /\ At(t, "de_remove")
  /\ LET l == lists[scanned_products]
         i == FirstEqual(l, dicts, th[t].item)
     IN  IF i = 0
         THEN Local(t, Done(t))
         ELSE Heap([lists EXCEPT ![scanned_products] = RemoveAt(l, i)], dicts,
                   scanned_products,
                   [th EXCEPT ![t].pc = "de_sumiter", ![t].item = NoRef])
  /\ UNCHANGED <<product_database, total_amount, last_scan, db, now, today>>

\* line 273
de_sumiter(t) == SumIter(t, "de_sumiter", "de_sum")

de_sum(t) == SumStep(t, "de_sum", "de_total")

de_total(t) == TotalWrite(t, "de_total", Done(t))

\* lines 46-57: products.json is looked for and parsed; without a file, or
\* with one json cannot parse, product_database = {} and the function returns
reload_products(t) ==
  /\ At(t, "idle")
  /\ \E f \in FileStates :
       IF f.state = "ok"
       THEN /\ Local(t, [th[t] EXCEPT !.pc = "rl_reset", !.objs = f.raw])
            /\ UNCHANGED product_database
       ELSE /\ product_database' = EmptyMap
            /\ Local(t, [th[t] EXCEPT !.pc = "rl_done"])
  /\ UNCHANGED <<total_amount, last_scan, db, now, today>>

\* line 60: product_database = {}
rl_reset(t) ==
  /\ At(t, "rl_reset")
  /\ product_database' = EmptyMap
  /\ Local(t, [th[t] EXCEPT !.pc = "rl_entry"])
  /\ UNCHANGED <<total_amount, last_scan, db, now, today>>

\* lines 61-79: one turn of `for barcode, info in raw.items()`
rl_entry(t) ==
  /\ At(t, "rl_entry")
  /\ LET r == th[t]
     IN  IF r.objs = <<>>
         THEN /\ Local(t, [r EXCEPT !.pc = "rl_done"])
              /\ UNCHANGED product_database
         ELSE /\ product_database' =
                   IF Head(r.objs).barcode = <<>>
                   THEN product_database
                   ELSE StoreEntry(product_database, Head(r.objs))
              /\ Local(t, [r EXCEPT !.objs = Tail(r.objs)])
  /\ UNCHANGED <<total_amount, last_scan, db, now, today>>

\* lines 82-84 and 280: the listing is printed and the count is returned
rl_done(t) ==
  /\ At(t, "rl_done")
  /\ Local(t, Done(t))
  /\ UNCHANGED <<product_database, total_amount, last_scan, db, now, today>>

\* a request arrives: the first step of its handler
request(t) ==
  \/ get_cart(t) \/ clear_cart(t) \/ remove_item(t)
  \/ increase_quantity(t) \/ decrease_quantity(t) \/ reload_products(t)

\* a later step of the handler
handler(t) ==
  \/ gc_total(t) \/ gc_len(t) \/ gc_json(t) \/ gc_done(t)
  \/ cl_total(t)
  \/ rm_filter(t) \/ rm_assign(t) \/ rm_sumiter(t) \/ rm_sum(t) \/ rm_total(t)
  \/ in_find(t) \/ in_qread(t) \/ in_qwrite(t)
  \/ in_tread(t) \/ in_twrite(t) \/ in_sumiter(t) \/ in_sum(t) \/ in_total(t)
  \/ de_find(t) \/ de_check(t) \/ de_qread(t)
  \/ de_qwrite(t) \/ de_tread(t) \/ de_twrite(t) \/ de_remove(t)
  \/ de_sumiter(t) \/ de_sum(t) \/ de_total(t)
  \/ rl_reset(t) \/ rl_entry(t) \/ rl_done(t)

\* -------------------------------------------------------- specifications
\* the request threads are alike: a request goes to the first free one
Free(t) == At(t, "idle") /\ \A u \in Handlers : u < t => ~At(u, "idle")

\* every request has been answered
NoRequest == \A t \in Handlers : At(t, "idle")

\* the scanner is between two frames, or has been stopped
BetweenFrames == th[Scanner].pc \in {"fetch", "stopped"}

\* a request for the cart: every handler but reload_products
cart_request(t) ==
  \/ get_cart(t) \/ clear_cart(t) \/ remove_item(t)
  \/ increase_quantity(t) \/ decrease_quantity(t)

\* lines 284-286: the scanner thread against a request thread, any
\* interleaving of their steps, for MaxRequests requests
Next ==
  \/ qr_scanner(Scanner) /\ UNCHANGED <<requests, accepted, call>>
  \/ \E t \in Handlers :
       /\ Free(t) /\ NoRequest /\ requests < MaxRequests
       /\ request(t)
       /\ requests' = requests + 1 /\ UNCHANGED <<accepted, call>>
  \/ \E t \in Handlers : handler(t) /\ UNCHANGED <<requests, accepted, call>>

Spec == Init /\ [][Next]_vars

\* the request threads against each other, any interleaving of their steps,
\* one request for each; the scanner runs between the requests
NextRequests ==
  \/ NoRequest /\ qr_scanner(Scanner) /\ UNCHANGED <<requests, accepted, call>>
  \/ \E t \in Handlers :
       /\ Free(t) /\ BetweenFrames /\ requests < NumHandlers
       /\ cart_request(t)
       /\ requests' = requests + 1 /\ UNCHANGED <<accepted, call>>
  \/ \E t \in Handlers : handler(t) /\ UNCHANGED <<requests, accepted, call>>

SpecRequests == Init /\ [][NextRequests]_vars

\* the same steps, each call run to its end before another starts: a request
\* is taken between two frames and answered before the next frame is fetched
NextSeq ==
  \/ NoRequest /\ qr_scanner(Scanner) /\ UNCHANGED <<requests, accepted, call>>
  \/ \E t \in Handlers :
       /\ Free(t) /\ NoRequest /\ BetweenFrames
       /\ cart_request(t)
       /\ UNCHANGED <<requests, accepted, call>>
  \/ \E t \in Handlers : handler(t) /\ UNCHANGED <<requests, accepted, call>>

SpecSeq == Init /\ [][NextSeq]_vars

\* the scanner thread alone, with the clock and the calendar
NextScan ==
  \/ qr_scanner(Scanner) /\ UNCHANGED <<requests, accepted, call>>
  \/ Tick /\ UNCHANGED <<requests, accepted, call>>
  \/ Midnight /\ UNCHANGED <<requests, accepted, call>>

SpecScan == Init /\ [][NextScan]_vars

\* line 152 is reached: the scan is accepted
AcceptStep == At(Scanner, "objs") /\ th'[Scanner].pc = "pb_in"

\* the scanner thread and the clock, with the accepted scans recorded
NextDebounce ==
  \/ /\ qr_scanner(Scanner)
     /\ accepted' =
          IF AcceptStep
          THEN [k \in DOMAIN accepted \cup {th'[Scanner].bc} |->
                  IF k = th'[Scanner].bc THEN now ELSE accepted[k]]
          ELSE accepted
     /\ UNCHANGED <<requests, call>>
  \/ Tick /\ UNCHANGED <<requests, accepted, call>>

SpecDebounce == Init /\ [][NextDebounce]_vars

\* the scanner thread alone, scheduled again and again: the thread is a
\* daemon of its own, and sleep(1) and urlopen(timeout=5) return
ScannerRuns == qr_scanner(Scanner) /\ UNCHANGED <<requests, accepted, call>>

SpecLive == Init /\ [][NextScan]_vars /\ WF_vars(ScannerRuns)

\* a call starts: its name, its argument, the cart it finds and the call
\* made before it
Started(op, bc) ==
  [op |-> op, bc |-> bc, items |-> Serialize(lists[scanned_products], dicts),
   total |-> total_amount, prev |-> [op |-> call.op, bc |-> call.bc]]

\* the call has ended
Ended == [call EXCEPT !.items = <<>>, !.total = 0, !.prev = NoCall.prev]

\* the scanner is in process_barcode
InProcessBarcode(p) ==
  p \in {"pb_in", "pb_get", "pb_iter", "pb_find", "pb_qread", "pb_qwrite",
         "pb_tread", "pb_twrite", "pb_append", "pb_sumiter", "pb_sum",
         "pb_total", "pb_select", "pb_write"}

\* process_barcode returns, or raises into qr_scanner's except
ScanEnds ==
  /\ InProcessBarcode(th[Scanner].pc)
  /\ th'[Scanner].pc \in {"objs", "except"}

\* a request handler returns
RequestEnds(t) == ~At(t, "idle") /\ th'[t].pc = "idle"

\* the calls run one after the other, reload_products among them, for
\* MaxCalls requests; each call is recorded with the cart it started from
NextCalls ==
  \/ /\ NoRequest
     /\ qr_scanner(Scanner)
     /\ call' = IF AcceptStep THEN Started("process_barcode", th'[Scanner].bc)
                ELSE IF ScanEnds THEN Ended ELSE call
     /\ UNCHANGED <<requests, accepted>>
  \/ \E t \in Handlers :
       /\ Free(t) /\ NoRequest /\ BetweenFrames /\ requests < MaxCalls
       /\ \/ get_cart(t) /\ call' = Started("get_cart", <<>>)
          \/ clear_cart(t) /\ call' = Started("clear_cart", <<>>)
          \/ remove_item(t) /\ call' = Started("remove_item", th'[t].bc)
          \/ increase_quantity(t) /\ call' = Started("increase_quantity", th'[t].bc)
          \/ decrease_quantity(t) /\ call' = Started("decrease_quantity", th'[t].bc)
          \/ reload_products(t) /\ call' = Started("reload_products", <<>>)
       /\ requests' = requests + 1
       /\ UNCHANGED accepted
  \/ \E t \in Handlers :
       /\ handler(t)
       /\ call' = IF RequestEnds(t) THEN Ended ELSE call
       /\ UNCHANGED <<requests, accepted>>

SpecCalls == Init /\ [][NextCalls]_vars

\* ------------------------------------------------------------ the claims
\* the cart: the elements of the list the global is bound to
Cart == lists[scanned_products]

CartItem(i) == dicts[Cart[i]]

\* a thread between the first read and the last write of the cart of
\* process_barcode, increase_quantity, decrease_quantity, remove_item or
\* clear_cart
Mutating(t) ==
  th[t].pc \in {"pb_find", "pb_qread", "pb_qwrite", "pb_tread", "pb_twrite",
                "pb_append", "pb_sumiter", "pb_sum", "pb_total",
                "cl_total",
                "rm_filter", "rm_assign", "rm_sumiter", "rm_sum", "rm_total",
                "in_find", "in_qread", "in_qwrite", "in_tread", "in_twrite",
                "in_sumiter", "in_sum", "in_total",
                "de_find", "de_check", "de_qread", "de_qwrite", "de_tread",
                "de_twrite", "de_remove", "de_sumiter", "de_sum", "de_total"}

\* no call is running: every request is answered and the scanner is outside
\* process_barcode
Settled == NoRequest /\ th[Scanner].pc \in {"fetch", "objs", "except", "stopped"}

\* thread t, in process_barcode or increase_quantity, stores the quantity it
\* has raised
IncrementStored(t) ==
  /\ th[t].pc \in {"pb_qwrite", "in_qwrite"}
  /\ th'[t].pc # th[t].pc

\* C1: no lost updates.  Each process_barcode / increase_quantity call on an
\* item of the cart raises the quantity the item has when the call stores it
\* by exactly one, so that N such calls, however their reads and writes
\* interleave, leave q + N.
C1_NoLostUpdate ==
  [][\A t \in Threads :
       IncrementStored(t) =>
         dicts'[th[t].item].quantity = dicts[th[t].item].quantity + 1]_vars

RECURSIVE SumLineTotals(_)
SumLineTotals(products) ==
  IF products = <<>> THEN 0
  ELSE Head(products).total + SumLineTotals(Tail(products))

\* C2: snapshot consistency.  Every response of get_cart holds a total equal
\* to round(sum of the line totals of the items it returns, 2) and an
\* item_count equal to the number of items it returns.
C2_SnapshotConsistent ==
  \A t \in Handlers :
    At(t, "gc_done") =>
      /\ th[t].resp.total_amount = Round2(SumLineTotals(th[t].resp.products))
      /\ th[t].resp.item_count = Len(th[t].resp.products)

\* C3: total invariant.  After every call of a sequence of calls run one
\* after the other, total_amount = round(sum of the line totals of the cart,
\* 2); it is 0 when the cart is empty.
C3_TotalInvariant ==
  Settled =>
    /\ total_amount = Round2(SumTotals(Cart, dicts))
    /\ Cart = <<>> => total_amount = 0

\* two scans and a decrease later: Milk twice and one 1.004, the total 6.02
C3_Witness ==
  /\ Settled
  /\ Len(Cart) = 2
  /\ \E i \in 1..2 : CartItem(i).quantity = 2 /\ CartItem(i).total = 5020
  /\ total_amount = 6020

\* C4: mutual exclusion.  At most one thread is between the first read and
\* the last write of the cart of a mutation.
C4_MutualExclusion == Cardinality({t \in Threads : Mutating(t)}) <= 1

\* C5: uniqueness.  The cart holds at most one line item per barcode.
C5_Uniqueness ==
  \A i, j \in 1..Len(Cart) : i # j => CartItem(i).barcode # CartItem(j).barcode

\* C6: quantity lower bound.  Every line item of the cart has quantity >= 1.
C6_QuantityFloor == \A i \in 1..Len(Cart) : CartItem(i).quantity >= 1

\* C7: line-total invariant.  Whenever no mutation is in flight, every line
\* item of the cart has total = round(quantity * price, 2).
C7_LineTotals ==
  (\A t \in Threads : ~Mutating(t)) =>
    \A i \in 1..Len(Cart) :
      CartItem(i).total = Round2(CartItem(i).quantity * CartItem(i).price)

\* the scanner takes the next decoded object, whose text is not blank
ScansObject ==
  /\ At(Scanner, "objs")
  /\ th[Scanner].objs # <<>>
  /\ strip(Head(th[Scanner].objs)) # <<>>
  /\ th'[Scanner] # th[Scanner]

\* C8: debounce accept rule.  A scan event (identifier, observed_at) is
\* accepted iff identifier # last identifier or observed_at - last accepted
\* time > RESCAN_DELAY; when accepted, last_scan is (identifier, observed_at)
\* as process_barcode starts; when rejected, last_scan, the cart and the log
\* stay as they are.
C8_AcceptRule ==
  [][ScansObject =>
       LET identifier == upper(strip(Head(th[Scanner].objs)))
           observed_at == now
       IN  IF \/ identifier # last_scan.barcode
              \/ observed_at - last_scan.time > RESCAN_DELAY
           THEN /\ last_scan' = [barcode |-> identifier, time |-> observed_at]
                /\ th'[Scanner].pc = "pb_in"
                /\ th'[Scanner].bc = identifier
                /\ UNCHANGED <<scanned_products, lists, dicts, total_amount, db>>
           ELSE /\ th'[Scanner].pc = "objs"
                /\ UNCHANGED <<last_scan, scanned_products, lists, dicts,
                               total_amount, db>>]_vars

\* A is accepted again 2.1 s after it was: its line item is there from the
\* first scan and process_barcode starts for the second
C8_Witness ==
  /\ At(Scanner, "pb_in")
  /\ th[Scanner].bc = <<"A">>
  /\ last_scan = [barcode |-> <<"A">>, time |-> 21]
  /\ Len(Cart) = 1 /\ CartItem(1).barcode = <<"A">> /\ CartItem(1).quantity = 1
  /\ Len(db) = 1 /\ db[1].quantity = 1

\* C9: the debounce window is a minimum spacing.  Two accepted scans of the
\* same barcode are more than RESCAN_DELAY apart.
C9_MinimumSpacing ==
  [][(AcceptStep /\ th'[Scanner].bc \in DOMAIN accepted) =>
       now - accepted[th'[Scanner].bc] > RESCAN_DELAY]_vars

\* what product_database is after a load of products.json that has run to
\* its end
CompleteCatalogs == {load_products_from_json(f) : f \in FileStates}

\* C10: atomic catalog reload.  What a lookup of process_barcode finds in
\* product_database is a whole load of products.json, never a part of one,
\* and the key that passed the membership test is there when its entry is
\* read.
C10_AtomicReload ==
  /\ th[Scanner].pc \in {"pb_in", "pb_get"} => product_database \in CompleteCatalogs
  /\ At(Scanner, "pb_get") => th[Scanner].bc \in DOMAIN product_database


\* the scanner leaves line 176 with a barcode that is not in product_database
UnknownScanned ==
  /\ At(Scanner, "pb_in")
  /\ th[Scanner].bc \notin DOMAIN product_database
  /\ th'[Scanner] # th[Scanner]

\* C11: an unknown identifier is a no-op.  process_barcode with a barcode
\* that is not in product_database returns to the scanner's loop (no
\* exception) and leaves the cart's items, total_amount and the log as they
\* were.
C11_UnknownNoOp ==
  [][UnknownScanned =>
       /\ th'[Scanner].pc = "objs"
       /\ UNCHANGED <<scanned_products, lists, dicts, total_amount, db>>]_vars

\* X, which no products.json holds, was accepted and processed after Milk:
\* the scanner is back in its loop, and the cart and the log hold Milk alone
C11_Witness ==
  /\ At(Scanner, "objs")
  /\ last_scan.barcode = <<"X">>
  /\ Len(Cart) = 1 /\ CartItem(1).barcode = <<"A">> /\ total_amount = 2510
  /\ Len(db) = 1 /\ db[1].barcode = <<"A">> /\ db[1].quantity = 1


\* the cart holds the scanned barcode and total_amount is the rounded sum of
\* its line totals
CartUpdated ==
  /\ \E i \in 1..Len(Cart) : CartItem(i).barcode = th[Scanner].bc
  /\ total_amount = Round2(SumTotals(Cart, dicts))

\* save_to_database raises
LogWriteFails ==
  /\ th[Scanner].pc \in {"pb_select", "pb_write"}
  /\ th'[Scanner].pc = "except"

\* C12: a persistence failure does not undo the cart mutation.
\* save_to_database is entered only with the line item in the cart and
\* total_amount updated; when it raises, the items and the total stay as they
\* are, and the scanner's next step after the except clause is the next
\* fetch.
C12_LogFailureKeepsCart ==
  [][/\ (InProcessBarcode(th[Scanner].pc) /\ th'[Scanner].pc = "pb_select")
          => CartUpdated'
     /\ LogWriteFails =>
          /\ CartUpdated
          /\ UNCHANGED <<scanned_products, lists, dicts, total_amount, db>>
     /\ (At(Scanner, "except") /\ th'[Scanner] # th[Scanner])
          => th'[Scanner].pc = "fetch"]_vars

\* the log write of Milk's scan has failed: Milk is in the cart, the total is
\* 2.51, the log is empty and the scanner fetches the next frame
C12_Witness ==
  /\ At(Scanner, "fetch")
  /\ Len(Cart) = 1 /\ CartItem(1).barcode = <<"A">> /\ CartItem(1).quantity = 1
  /\ total_amount = 2510
  /\ db = <<>>


\* C13: the rows of earlier days are immutable.  No step removes a row or
\* changes a row whose day is before today; a step that changes the log
\* changes, or adds, only rows of the scanned barcode and of today.
C13_PriorDaysImmutable ==
  [][/\ Len(db') >= Len(db)
     /\ \A i \in 1..Len(db) : db[i].day < today => db'[i] = db[i]
     /\ \A i \in 1..Len(db') :
          (i > Len(db) \/ db'[i] # db[i]) =>
            /\ At(Scanner, "pb_write")
            /\ db'[i].barcode = th[Scanner].bc
            /\ db'[i].day = today]_vars

\* Milk scanned yesterday and again today: yesterday's row still says 1 and
\* today's scan has a row of its own
C13_Witness ==
  /\ today = 1
  /\ Len(db) = 2
  /\ db[1].barcode = <<"A">> /\ db[1].day = 0 /\ db[1].quantity = 1
  /\ db[2].barcode = <<"A">> /\ db[2].day = 1 /\ db[2].quantity = 1

\* save_to_database returns: the row is written
LogWritten == At(Scanner, "pb_write") /\ th'[Scanner].pc = "objs"

\* C14: per-day upsert count.  The log holds at most one row per (barcode,
\* day); a log write that succeeds adds 1 to the quantity of the row of the
\* scanned barcode and of today when there is one, and otherwise inserts that
\* row with quantity 1, so that the row counts the scans of the day.
C14_PerDayUpsert ==
  [][/\ \A i, j \in 1..Len(db') :
          (db'[i].barcode = db'[j].barcode /\ db'[i].day = db'[j].day) => i = j
     /\ LogWritten =>
          LET bc == th[Scanner].bc
              rows == {i \in 1..Len(db) : RowOfToday(db[i], bc, today)}
          IN  IF rows = {}
              THEN db' = Append(db, [name |-> th[Scanner].product.name,
                                     price |-> th[Scanner].product.price,
                                     barcode |-> bc, quantity |-> 1,
                                     day |-> today])
              ELSE \E i \in rows : db' = [db EXCEPT ![i].quantity = @ + 1]]_vars


\* C15: the log is independent of the cart commands.  No step of a request
\* handler changes a row of the log; the log changes only as the scanner
\* leaves save_to_database, called by process_barcode for a barcode it found
\* in product_database.
C15_LogIndependence ==
  [][/\ \A t \in Handlers : th'[t] # th[t] => db' = db
     /\ db' # db =>
          /\ At(Scanner, "pb_write")
          /\ th'[Scanner] # th[Scanner]
          /\ th[Scanner].product # NoProduct]_vars

\* Milk was scanned twice and the cart is being cleared: the new list is
\* empty and Milk's row still says 2
C15_Witness ==
  /\ \E t \in Handlers : At(t, "cl_total")
  /\ Cart = <<>>
  /\ Len(db) = 1 /\ db[1].barcode = <<"A">> /\ db[1].quantity = 2


\* the cart after the step, as json would write it
ItemsAfter == Serialize(lists'[scanned_products'], dicts')

\* the step leaves the cart as the call found it
CartAsFound == ItemsAfter = call.items /\ total_amount' = call.total

\* the call that ends follows a call of the same handler with the same barcode
Repeated == call.prev = [op |-> call.op, bc |-> call.bc]

\* the cart the call found holds no line item of the call's barcode
AbsentAtCall == \A i \in 1..Len(call.items) : call.items[i].barcode # call.bc

\* C16: clear and remove are safe to retry.  A clear_cart that follows a
\* clear_cart, and a remove_item that follows a remove_item of the same
\* barcode, end with the items and the total they started from; so does a
\* remove_item of a barcode the cart does not hold.  clear_cart ends with an
\* empty cart and remove_item with a cart without the barcode.
C16_RetrySafe ==
  [][\A t \in Handlers :
       RequestEnds(t) =>
         /\ call.op = "clear_cart" => ItemsAfter = <<>> /\ total_amount' = 0
         /\ (call.op = "clear_cart" /\ Repeated) => CartAsFound
         /\ call.op = "remove_item" =>
              \A i \in 1..Len(ItemsAfter) : ItemsAfter[i].barcode # call.bc
         /\ (call.op = "remove_item" /\ Repeated) => CartAsFound
         /\ (call.op = "remove_item" /\ AbsentAtCall) => CartAsFound]_vars

\* Milk is removed a second time, from a cart that holds the 1.004 item alone:
\* the list has been assigned and the total is about to be stored
C16_Witness ==
  /\ \E t \in Handlers : At(t, "rm_total")
  /\ call.op = "remove_item" /\ call.bc = <<"A">> /\ Repeated
  /\ Len(call.items) = 1 /\ call.items[1].barcode = <<"B">>
  /\ Len(Cart) = 1


\* C17: ingestion survives a failure of the scan source.  The scanner's step
\* after an exception of the fetch, the decoding or process_barcode is the
\* next fetch, with last_scan and the cart as they were; the loop is left
\* only where the key is read, after the frame's objects; and, the thread
\* being scheduled, every exception is followed by another fetch.
C17_IngestionSurvives ==
  /\ [][/\ (At(Scanner, "except") /\ th'[Scanner] # th[Scanner]) =>
             /\ th'[Scanner].pc = "fetch"
             /\ UNCHANGED <<last_scan, scanned_products, lists, dicts,
                            total_amount, db>>
        /\ (~At(Scanner, "stopped") /\ th'[Scanner].pc = "stopped") =>
             At(Scanner, "objs") /\ th[Scanner].objs = <<>>]_vars
  /\ At(Scanner, "except") ~> At(Scanner, "fetch")

\* the log write of Milk's scan raised; the 1.004 item scanned afterwards is in
\* the cart behind Milk and has the log's only row
C17_Witness ==
  /\ At(Scanner, "fetch")
  /\ Len(Cart) = 2
  /\ CartItem(1).barcode = <<"A">> /\ CartItem(2).barcode = <<"B">>
  /\ Len(db) = 1 /\ db[1].barcode = <<"B">>


\* a line item with one more of it
OneMore(it) ==
  [it EXCEPT !.quantity = it.quantity + 1,
             !.total = Round2((it.quantity + 1) * it.price)]

\* C18: process_barcode on a barcode x of product_database.  When the cart
\* it finds holds a line item of x, that item's quantity is one more at the
\* same position; otherwise a line item of x with quantity 1 and the name and
\* the price of product_database[x] is the last of the cart.  Every other
\* line item is as it was, at the position it had.
C18_AddScan ==
  [][(ScanEnds /\ call.op = "process_barcode"
               /\ call.bc \in DOMAIN product_database) =>
       LET x == call.bc
           found == call.items
           product == product_database[x]
       IN  IF \E i \in 1..Len(found) : found[i].barcode = x
           THEN ItemsAfter = [i \in 1..Len(found) |->
                                IF found[i].barcode = x THEN OneMore(found[i])
                                ELSE found[i]]
           ELSE ItemsAfter = Append(found,
                               [name |-> product.name, price |-> product.price,
                                barcode |-> x, quantity |-> 1,
                                total |-> Round2(product.price)])]_vars

\* Milk, then the 1.004 item, then Milk again: the last call was the scan of
\* Milk, and Milk is first with quantity 2, the other item behind it
C18_Witness ==
  /\ At(Scanner, "objs")
  /\ call.op = "process_barcode" /\ call.bc = <<"A">>
  /\ Len(Cart) = 2
  /\ CartItem(1).barcode = <<"A">> /\ CartItem(1).quantity = 2
  /\ CartItem(2).barcode = <<"B">> /\ CartItem(2).quantity = 1


\* a line item with one less of it
OneLess(it) ==
  [it EXCEPT !.quantity = it.quantity - 1,
             !.total = Round2((it.quantity - 1) * it.price)]

\* the line items but those of barcode x, in their order
Without(items, x) == SelectSeq(items, LAMBDA it : it.barcode # x)

\* C19: decrease_quantity and increase_quantity, run alone.  decrease on a
\* line item of quantity q > 1 leaves it with q - 1, on one of quantity 1
\* takes it out of the cart; increase adds 1; both leave the items and the
\* total as they were when the cart holds no item of the barcode; every
\* other line item is as it was.
C19_DecreaseIncrease ==
  [][\A t \in Handlers :
       RequestEnds(t) =>
         LET x == call.bc
             found == call.items
         IN  /\ (call.op \in {"decrease_quantity", "increase_quantity"}
                   /\ AbsentAtCall) => CartAsFound
             /\ (call.op = "increase_quantity" /\ ~AbsentAtCall) =>
                  ItemsAfter = [i \in 1..Len(found) |->
                                  IF found[i].barcode = x THEN OneMore(found[i])
                                  ELSE found[i]]
             /\ (call.op = "decrease_quantity" /\ ~AbsentAtCall) =>
                  IF \E i \in 1..Len(found) :
                       found[i].barcode = x /\ found[i].quantity > 1
                  THEN ItemsAfter = [i \in 1..Len(found) |->
                                       IF found[i].barcode = x THEN OneLess(found[i])
                                       ELSE found[i]]
                  ELSE ItemsAfter = Without(found, x)]_vars

\* the one request was a decrease of Milk, which had been scanned once: the
\* cart holds the 1.004 item alone
C19_Witness ==
  /\ NoRequest /\ requests = 1
  /\ call.op = "decrease_quantity" /\ call.bc = <<"A">>
  /\ Len(db) = 2 /\ db[1].barcode = <<"A">> /\ db[1].quantity = 1
  /\ Len(Cart) = 1 /\ CartItem(1).barcode = <<"B">>
  /\ total_amount = 1000


\* process_barcode, increase_quantity or decrease_quantity ends
CounterCallEnds ==
  \/ ScanEnds /\ call.op = "process_barcode"
  \/ \E t \in Handlers :
       RequestEnds(t) /\ call.op \in {"increase_quantity", "decrease_quantity"}

\* C20: a reload of products.json leaves the cart unchanged.  No step that
\* changes product_database changes the cart's items or total_amount, and
\* reload_products ends with the cart it found; a line item keeps its name,
\* its price and its barcode as long as it lives; and the line item a later
\* process_barcode, increase_quantity or decrease_quantity leaves has the
\* price it had and the total round(quantity * that price, 2), whatever
\* product_database says by then.
C20_ReloadKeepsCart ==
  [][/\ product_database' # product_database =>
          UNCHANGED <<scanned_products, lists, dicts, total_amount>>
     /\ \A t \in Handlers :
          (RequestEnds(t) /\ call.op = "reload_products") => CartAsFound
     /\ \A d \in DictIds :
          (dicts[d] # NoDict /\ dicts'[d] # NoDict) =>
            /\ dicts'[d].name = dicts[d].name
            /\ dicts'[d].price = dicts[d].price
            /\ dicts'[d].barcode = dicts[d].barcode
     /\ CounterCallEnds =>
          \A i \in 1..Len(ItemsAfter) :
            ItemsAfter[i].barcode = call.bc =>
              /\ ItemsAfter[i].total =
                   Round2(ItemsAfter[i].quantity * ItemsAfter[i].price)
              /\ \A j \in 1..Len(call.items) :
                   call.items[j].barcode = call.bc =>
                     /\ ItemsAfter[i].price = call.items[j].price
                     /\ ItemsAfter[i].name = call.items[j].name]_vars

\* Milk was scanned at 2.51, products.json was reloaded with Milk at 3.00 and
\* without the 1.004 item, and Milk was scanned again: two at 2.51 are 5.02
C20_Witness ==
  /\ Settled
  /\ call.op = "process_barcode" /\ call.bc = <<"A">>
  /\ product_database = load_products_from_json([state |-> "ok", raw |-> File2])
  /\ product_database[<<"A">>].price = 3000
  /\ Len(Cart) = 1
  /\ CartItem(1).price = 2510 /\ CartItem(1).quantity = 2
  /\ CartItem(1).total = 5020 /\ total_amount = 5020
====
